---- MODULE Spec2Model ----
(***************************************************************************)
(* Model of the satellite imaging calculators                              *)
(*   src/pierwszykrokmilowy.py  (coverage / data-volume estimator)         *)
(*   src/drugikrokmilowy.py     (hybrid acquisition and downlink budget)   *)
(*                                                                         *)
(* Numbers.  The program computes in IEEE-754 binary floating point        *)
(* (Python float / numpy.float64) and in unbounded Python integers.  The   *)
(* model keeps the floating-point semantics (round to nearest, ties to     *)
(* even; gradual underflow; overflow to infinity; NaN) in a binary format  *)
(* of the same shape as binary64 with a shorter significand (Precision     *)
(* bits instead of 53) and a narrower exponent range (unit exponents       *)
(* -ExpRange..ExpRange instead of -1074..971).  Every value of the model   *)
(* is non-negative: the program only subtracts in 1 - overlap_percent/100, *)
(* and the modelled inputs keep 0 <= overlap_percent <= 100.               *)
(*                                                                         *)
(* Specifications.  Spec: analyze_resolution_scenario called up to         *)
(* MaxCalls times on the scenarios of main() and on variants of them, one  *)
(* action per statement.  SpecFn: calculate_image_size,                    *)
(* calculate_number_of_images and check_transmission_limit each called on  *)
(* arguments drawn from a grid, and main() of drugikrokmilowy.py.          *)
(***************************************************************************)
EXTENDS Integers, Sequences, FiniteSets, TLC

VARIABLES
    pc,       \* the statement the call is at, or "idle" between calls
    args,     \* the arguments of the call in progress
    loc,      \* its local variables (None: not bound yet)
    trace,    \* the statements it has executed, in order
    history,  \* the finished calls: arguments, outcome, result, statements
    fn,       \* the last call of a function on its own: arguments and return
    line,     \* the statement main() of drugikrokmilowy.py is at
    volumes,  \* its list volumes (None: not bound yet)
    printed,  \* the result lines it has printed
    shown     \* what main() of pierwszykrokmilowy.py has drawn and reported

\* Significand width of the modelled binary format (binary64: 53).
Precision == 8

\* Largest and (negated) smallest exponent of the unit in the last place.
ExpRange == 64

Emax == ExpRange
Emin == 0 - ExpRange

Max(a, b) == IF a >= b THEN a ELSE b
Min(a, b) == IF a <= b THEN a ELSE b

\* Number of binary digits of the natural number n < 2^31 (int.bit_length()).
Bits(n) ==
    IF n = 0 THEN 0
    ELSE CHOOSE b \in 1..31 : 2^(b - 1) <= n /\ (b = 31 \/ n < 2^b)

(***************************************************************************)
(* Floating-point values: [k, m, e].  k = "fin": the value m * 2^e, with   *)
(* 2^(Precision-1) <= m < 2^Precision (normal), or e = Emin and            *)
(* m < 2^(Precision-1) (subnormal), or m = 0, e = 0 (zero).                *)
(***************************************************************************)
Zero == [k |-> "fin", m |-> 0, e |-> 0]
Inf  == [k |-> "inf", m |-> 0, e |-> 0]
NaN  == [k |-> "nan", m |-> 0, e |-> 0]

IsNaN(x)    == x.k = "nan"
IsInf(x)    == x.k = "inf"
IsFinite(x) == x.k = "fin"
IsZero(x)   == x.k = "fin" /\ x.m = 0

Pack(m, e) ==
    IF m = 0 THEN Zero
    ELSE IF e > Emax THEN Inf
    ELSE [k |-> "fin", m |-> m, e |-> e]

\* n / d rounded to the nearest integer, ties to even (d a power of two).
NearestEven(n, d) ==
    IF 2 * (n % d) > d \/ (2 * (n % d) = d /\ (n \div d) % 2 = 1)
    THEN (n \div d) + 1
    ELSE n \div d

\* A rounded significand that reached 2^Precision moves to the next binade.
Carry(m, te) ==
    IF m = 2^Precision THEN Pack(2^(Precision - 1), te + 1) ELSE Pack(m, te)

\* n * 2^e rounded to a multiple of 2^te, the unit in the last place.
RoundTo(n, e, te) ==
    IF te <= e THEN Pack(n * 2^(e - te), te)
    ELSE IF te - e > Bits(n) + 1 THEN Zero
    ELSE Carry(NearestEven(n, 2^(te - e)), te)

\* The float nearest to the exact value n * 2^e (0 <= n < 2^30), ties to even.
Round(n, e) ==
    IF n = 0 THEN Zero
    ELSE RoundTo(n, e, Max(e + Bits(n) - Precision, Emin))

\* A Python int literal or value converted to float.
FromInt(n) == Round(n, 0)

\* The float nearest to (n / d) * 2^e, for a quotient of more than Precision
\* bits: the remainder is kept as a sticky bit.
Quot(n, d, e) ==
    Round(2 * (n \div d) + (IF n % d = 0 THEN 0 ELSE 1), e - 1)

\* The float nearest to (n / d) * 2^e, the dividend scaled by 2^s first.
QuotScaled(n, d, e, s) == Quot(n * 2^s, d, e - s)

\* The float nearest to the exact quotient n / d of two naturals (d > 0):
\* a decimal literal such as 1.2 = 12/10.
FromRatio(n, d) ==
    IF n = 0 THEN Zero
    ELSE QuotScaled(n, d, 0, Max(0, Precision + 2 + Bits(d) - Bits(n)))

\* x * y
FMul(x, y) ==
    IF IsNaN(x) \/ IsNaN(y) THEN NaN
    ELSE IF IsInf(x) \/ IsInf(y)
         THEN (IF IsZero(x) \/ IsZero(y) THEN NaN ELSE Inf)
    ELSE Round(x.m * y.m, x.e + y.e)

\* x / y as numpy.float64 divides: a zero divisor gives inf or nan (with a
\* RuntimeWarning), never an exception.  Python's float / float gives the
\* same value for every divisor but zero.
FDiv(x, y) ==
    IF IsNaN(x) \/ IsNaN(y) THEN NaN
    ELSE IF IsInf(x) THEN (IF IsInf(y) THEN NaN ELSE Inf)
    ELSE IF IsInf(y) THEN Zero
    ELSE IF IsZero(y) THEN (IF IsZero(x) THEN NaN ELSE Inf)
    ELSE IF IsZero(x) THEN Zero
    ELSE QuotScaled(x.m, y.m, x.e - y.e,
                    Max(0, Precision + 1 + Bits(y.m) - Bits(x.m)))

\* x < y, x = y, x <= y as IEEE comparisons (false when either is NaN).
FLt(x, y) ==
    IF IsNaN(x) \/ IsNaN(y) THEN FALSE
    ELSE IF IsInf(x) THEN FALSE
    ELSE IF IsInf(y) THEN TRUE
    ELSE IF IsZero(y) THEN FALSE
    ELSE IF IsZero(x) THEN TRUE
    ELSE x.e < y.e \/ (x.e = y.e /\ x.m < y.m)

FEq(x, y) == ~IsNaN(x) /\ ~IsNaN(y) /\ x = y

FLe(x, y) == FLt(x, y) \/ FEq(x, y)

\* big + small for finite big >= small > 0.
AddOrdered(big, small) ==
    IF big.e - small.e > Precision + 2
    THEN Round(4 * big.m + 1, big.e - 2)
    ELSE Round(big.m * 2^(big.e - small.e) + small.m, small.e)

\* x + y
FAdd(x, y) ==
    IF IsNaN(x) \/ IsNaN(y) THEN NaN
    ELSE IF IsInf(x) \/ IsInf(y) THEN Inf
    ELSE IF IsZero(x) THEN y
    ELSE IF IsZero(y) THEN x
    ELSE IF FLt(x, y) THEN AddOrdered(y, x)
    ELSE AddOrdered(x, y)

\* x - y for y <= x (the only subtraction of the program is 1 - overlap/100).
FSub(x, y) ==
    IF IsNaN(x) \/ IsNaN(y) THEN NaN
    ELSE IF IsInf(x) THEN (IF IsInf(y) THEN NaN ELSE Inf)
    ELSE IF IsZero(y) THEN x
    ELSE IF ~FLt(y, x) THEN Zero
    ELSE IF x.e - y.e > Precision + 2
         THEN Round(4 * x.m - 1, x.e - 2)
    ELSE Round(x.m * 2^(x.e - y.e) - y.m, y.e)

\* numpy.ceil: the least integral float >= x; inf and nan pass through.
FCeil(x) ==
    IF ~IsFinite(x) \/ x.e >= 0 THEN x
    ELSE IF 0 - x.e > Bits(x.m) THEN FromInt(1)
    ELSE IF x.m % 2^(0 - x.e) = 0 THEN FromInt(x.m \div 2^(0 - x.e))
    ELSE FromInt((x.m \div 2^(0 - x.e)) + 1)

\* The integral part of a finite float (what int() keeps).
FTrunc(x) ==
    IF ~IsFinite(x) \/ x.e >= 0 THEN x
    ELSE IF 0 - x.e > Bits(x.m) THEN Zero
    ELSE FromInt(x.m \div 2^(0 - x.e))

\* The integer square root of n, and whether it is exact, as 2*root + sticky.
RootSticky(n) ==
    LET rt == CHOOSE t \in 0..(2^(Precision + 2)) :
                  t * t <= n /\ (t + 1) * (t + 1) > n
    IN  IF rt * rt = n THEN 2 * rt ELSE 2 * rt + 1

\* sqrt(m * 2^e) for a significand scaled by 2^s to 2*Precision+2 bits or
\* more and an even exponent e - s.
SqrtScaled(m, e, s) == Round(RootSticky(m * 2^s), ((e - s) \div 2) - 1)

\* numpy.sqrt, correctly rounded.
FSqrt(x) ==
    IF ~IsFinite(x) \/ IsZero(x) THEN x
    ELSE IF (x.e - (2 * Precision + 2 - Bits(x.m))) % 2 = 0
         THEN SqrtScaled(x.m, x.e, 2 * Precision + 2 - Bits(x.m))
    ELSE SqrtScaled(x.m, x.e, 2 * Precision + 3 - Bits(x.m))

(***************************************************************************)
(* Python integers are unbounded and exact: [k |-> "int", m, e] is the     *)
(* integer m * 2^e with m odd (or m = 0, e = 0).                           *)
(***************************************************************************)
RECURSIVE IntNorm(_, _)
IntNorm(m, e) ==
    IF m = 0 THEN [k |-> "int", m |-> 0, e |-> 0]
    ELSE IF m % 2 = 0 THEN IntNorm(m \div 2, e + 1)
    ELSE [k |-> "int", m |-> m, e |-> e]

PyInt(n) == IntNorm(n, 0)

\* int * int
IntMul(a, b) == IntNorm(a.m * b.m, a.e + b.e)

\* int(x) of a finite float x: truncation, exact.
IntOfFloat(x) == IntNorm(FTrunc(x).m, FTrunc(x).e)

\* float(i), as in int * float and int / float: the nearest float.
IntToFloat(i) == Round(i.m, i.e)

\* The exception int(x) raises on a float that is not finite.
IntExc(x) ==
    IF IsInf(x) THEN "OverflowError"
    ELSE IF IsNaN(x) THEN "ValueError"
    ELSE "none"

\* int / int (true division): the float nearest to the exact quotient.
IntTrueDiv(a, b) ==
    IF a.m = 0 THEN Zero
    ELSE QuotScaled(a.m, b.m, a.e - b.e,
                    Max(0, Precision + 2 + Bits(b.m) - Bits(a.m)))

\* x ** 3 of a float: the nearest float to the exact cube.
FPow3(x) ==
    IF ~IsFinite(x) THEN x ELSE Round(x.m * x.m * x.m, 3 * x.e)

\* None, and a local that is not bound yet.
None == [k |-> "none", m |-> 0, e |-> 0]

(***************************************************************************)
(* Constants of pierwszykrokmilowy.py.                                     *)
(***************************************************************************)
EARTH_RADIUS == 6371000

\* math.pi = 3.141592653589793, here 843314857 * 2^-28 rounded to the format.
Pi == Round(843314857, 0 - 28)

\* 4 * pi * EARTH_RADIUS**2.  EARTH_RADIUS**2 is an exact int that binary64
\* holds exactly; here it is the format's product of the converted radius.
EARTH_SURFACE_AREA ==
    FMul(FMul(FromInt(4), Pi), FMul(FromInt(EARTH_RADIUS), FromInt(EARTH_RADIUS)))

\* 2 * pi * EARTH_RADIUS
EARTH_CIRCUMFERENCE == FMul(FMul(FromInt(2), Pi), FromInt(EARTH_RADIUS))

\* correction_factor = 1.2
CorrectionFactor == FromRatio(12, 10)

\* earth_gravitational_parameter = 3.986004418e14, here 380135004 * 2^20
\* (relative error 1e-10) rounded to the format.
EarthGravitationalParameter == Round(380135004, 20)

(***************************************************************************)
(* pierwszykrokmilowy.py.  A function that can raise returns a record      *)
(* whose field exc names the exception ("none": it returned).              *)
(***************************************************************************)

\* math.radians(x) = x * (pi / 180)
Radians(x) == FMul(x, FDiv(Pi, FromInt(180)))

\* np.tan(radians(fov_degrees) / 2).  The tangent is tabulated for the fields
\* of view main() uses (tan 2.5, 5 and 7.5 degrees, scaled by 2^32); for the
\* other modelled inputs, all of them far below 2^-Precision radians, tan x
\* rounds to x.
NpTanHalfFov(fov_degrees) ==
    CASE fov_degrees = FromInt(5)  -> Round(187522322, 0 - 32)
      [] fov_degrees = FromInt(10) -> Round(375760949, 0 - 32)
      [] fov_degrees = FromInt(15) -> Round(565443172, 0 - 32)
      [] OTHER -> FDiv(Radians(fov_degrees), FromInt(2))

\* Mutant: one byte per pixel per channel.
calculate_image_size_one_byte(resolution, image_width_px, image_height_px, num_channels) ==
    LET total_pixels     == IntMul(image_width_px, image_height_px)
        image_size_bytes == IntMul(total_pixels, num_channels)
        image_size_mb    == IntTrueDiv(image_size_bytes, IntMul(PyInt(1024), PyInt(1024)))
    IN  IF IsInf(image_size_mb)
        THEN [exc |-> "OverflowError"]
        ELSE [exc |-> "none", total_pixels |-> total_pixels,
              image_size_mb |-> image_size_mb]

calculate_image_size(resolution, image_width_px, image_height_px, num_channels) ==
    LET total_pixels     == IntMul(image_width_px, image_height_px)
        image_size_bytes == IntMul(IntMul(total_pixels, num_channels), PyInt(2))
        image_size_mb    == IntTrueDiv(image_size_bytes, IntMul(PyInt(1024), PyInt(1024)))
    IN  IF IsInf(image_size_mb)
        THEN [exc |-> "OverflowError"]
        ELSE [exc |-> "none", total_pixels |-> total_pixels,
              image_size_mb |-> image_size_mb]

calculate_ground_coverage(altitude, fov_degrees, sensor_width_mm, sensor_height_mm, pixel_size_um) ==
    LET swath_width  == FMul(FMul(FromInt(2), altitude), NpTanHalfFov(fov_degrees))
        aspect_ratio == FDiv(sensor_width_mm, sensor_height_mm)
        swath_height == FDiv(swath_width, aspect_ratio)
        w            == FDiv(FMul(sensor_width_mm, FromInt(1000)), pixel_size_um)
        h            == FDiv(FMul(sensor_height_mm, FromInt(1000)), pixel_size_um)
    IN  IF IsZero(sensor_height_mm) \/ IsZero(pixel_size_um)
        THEN [exc |-> "ZeroDivisionError"]
        ELSE IF IntExc(w) # "none" THEN [exc |-> IntExc(w)]
        ELSE IF IntExc(h) # "none" THEN [exc |-> IntExc(h)]
        ELSE [exc |-> "none", swath_width |-> swath_width,
              swath_height |-> swath_height,
              width_px |-> IntOfFloat(w), height_px |-> IntOfFloat(h)]

\* Lines 72-75 of calculate_number_of_images: the local effective_area.
EffectiveArea(swath_width, swath_height, overlap_percent) ==
    LET effective_width  == FMul(swath_width,
                                 FSub(FromInt(1), FDiv(overlap_percent, FromInt(100))))
        effective_height == FMul(swath_height,
                                 FSub(FromInt(1), FDiv(overlap_percent, FromInt(100))))
    IN  FMul(effective_width, effective_height)

\* Line 83: int(np.ceil(num_images)).
IntCeil(num_images) ==
    IF IntExc(FCeil(num_images)) # "none"
    THEN [exc |-> IntExc(FCeil(num_images))]
    ELSE [exc |-> "none", num_images |-> IntOfFloat(FCeil(num_images))]

\* Mutant: the image count scaled by the resolution argument.
calculate_number_of_images_by_resolution(resolution, swath_width, swath_height, overlap_percent) ==
    LET effective_area == EffectiveArea(swath_width, swath_height, overlap_percent)
        num_images     == FMul(FDiv(FDiv(EARTH_SURFACE_AREA, effective_area),
                                    resolution),
                               CorrectionFactor)
    IN  IntCeil(num_images)

calculate_number_of_images(resolution, swath_width, swath_height, overlap_percent) ==
    LET effective_area == EffectiveArea(swath_width, swath_height, overlap_percent)
        num_images     == FMul(FDiv(EARTH_SURFACE_AREA, effective_area),
                               CorrectionFactor)
    IN  IntCeil(num_images)

calculate_sso_orbit_parameters(altitude, inclination_degrees) ==
    LET orbital_radius == FAdd(FromInt(EARTH_RADIUS), altitude)
        cube           == FPow3(orbital_radius)
        orbital_period_seconds ==
            FMul(FMul(FromInt(2), Pi),
                 FSqrt(FDiv(cube, EarthGravitationalParameter)))
        orbital_period_minutes == FDiv(orbital_period_seconds, FromInt(60))
        orbits_per_day == FDiv(FromInt(24 * 60 * 60), orbital_period_seconds)
    IN  IF IsInf(cube) /\ IsFinite(orbital_radius)
        THEN [exc |-> "OverflowError"]
        ELSE [exc |-> "none",
              orbital_radius_km |-> FDiv(orbital_radius, FromInt(1000)),
              orbital_period_minutes |-> orbital_period_minutes,
              orbits_per_day |-> orbits_per_day,
              repeat_cycle_days |-> FCeil(orbits_per_day),
              longitude_separation_degrees |-> FDiv(FromInt(360), orbits_per_day),
              inclination_degrees |-> inclination_degrees,
              nodal_precession_deg_per_day |-> FromRatio(9856, 10000)]

\* Lines 146 and 159 of calculate_imaging_intervals: the local
\* distance_interval_along_track (= effective_height), in metres.
DistanceIntervalAlongTrack(swath_height, overlap_percent) ==
    FMul(swath_height, FSub(FromInt(1), FDiv(overlap_percent, FromInt(100))))

\* Lines 162-165: the local num_strips_equator.
NumStripsEquator(swath_width, overlap_percent) ==
    LET effective_width == FMul(swath_width,
                                FSub(FromInt(1), FDiv(overlap_percent, FromInt(100))))
    IN  FCeil(FDiv(EARTH_CIRCUMFERENCE, effective_width))

\* Line 171: the local distance_interval_cross_track, in metres.
DistanceIntervalCrossTrack(swath_width, overlap_percent) ==
    FDiv(EARTH_CIRCUMFERENCE, NumStripsEquator(swath_width, overlap_percent))

calculate_imaging_intervals(altitude, swath_width, swath_height, overlap_percent, orbital_period_minutes) ==
    LET effective_height == DistanceIntervalAlongTrack(swath_height, overlap_percent)
        orbital_radius == FAdd(FromInt(EARTH_RADIUS), altitude)
        orbital_circumference == FMul(FMul(FromInt(2), Pi), orbital_radius)
        orbital_period_seconds == FMul(orbital_period_minutes, FromInt(60))
        satellite_velocity == FDiv(orbital_circumference, orbital_period_seconds)
        ground_velocity == FMul(satellite_velocity,
                                FDiv(FromInt(EARTH_RADIUS), orbital_radius))
        time_interval_seconds == FDiv(effective_height, ground_velocity)
        distance_interval_along_track == effective_height
        num_strips_equator == NumStripsEquator(swath_width, overlap_percent)
        longitude_interval_degrees == FDiv(FromInt(360), num_strips_equator)
        distance_interval_cross_track ==
            DistanceIntervalCrossTrack(swath_width, overlap_percent)
        num_orbits_for_coverage == FDiv(num_strips_equator, FromInt(2))
        time_for_full_coverage_hours ==
            FDiv(FMul(num_orbits_for_coverage, orbital_period_minutes), FromInt(60))
    IN  \* line 152 divides two Python floats: a zero period raises
        IF IsZero(orbital_period_seconds)
        THEN [exc |-> "ZeroDivisionError"]
        ELSE [exc |-> "none",
              satellite_velocity_km_h |-> FMul(satellite_velocity, FromRatio(36, 10)),
              ground_velocity_km_h |-> FMul(ground_velocity, FromRatio(36, 10)),
              time_interval_seconds |-> time_interval_seconds,
              distance_interval_along_track_km |->
                  FDiv(distance_interval_along_track, FromInt(1000)),
              distance_interval_cross_track_km |->
                  FDiv(distance_interval_cross_track, FromInt(1000)),
              longitude_interval_degrees |-> longitude_interval_degrees,
              num_strips_equator |-> num_strips_equator,
              num_orbits_for_coverage |-> num_orbits_for_coverage,
              time_for_full_coverage_hours |-> time_for_full_coverage_hours]

\* Mutant: gigabytes and terabytes in steps of 1000 instead of 1024.
calculate_total_data_volume_decimal(resolution, num_images, image_size_mb) ==
    LET total_data_mb == FMul(IntToFloat(num_images), image_size_mb)
        total_data_gb == FDiv(total_data_mb, FromInt(1000))
        total_data_tb == FDiv(total_data_gb, FromInt(1000))
    IN  [exc |-> "none", total_data_mb |-> total_data_mb,
         total_data_gb |-> total_data_gb, total_data_tb |-> total_data_tb]

\* Mutant: a running total kept across calls (the volume of the scenarios
\* analysed before is added to the one computed).
calculate_total_data_volume_running(resolution, num_images, image_size_mb) ==
    LET earlier == IF history # <<>> /\ history[Len(history)].exc = "none"
                   THEN history[Len(history)].results.total_data_mb
                   ELSE Zero
        total_data_mb == FAdd(earlier, FMul(IntToFloat(num_images), image_size_mb))
        total_data_gb == FDiv(total_data_mb, FromInt(1024))
        total_data_tb == FDiv(total_data_gb, FromInt(1024))
    IN  [exc |-> "none", total_data_mb |-> total_data_mb,
         total_data_gb |-> total_data_gb, total_data_tb |-> total_data_tb]

calculate_total_data_volume(resolution, num_images, image_size_mb) ==
    LET total_data_mb == FMul(IntToFloat(num_images), image_size_mb)
        total_data_gb == FDiv(total_data_mb, FromInt(1024))
        total_data_tb == FDiv(total_data_gb, FromInt(1024))
    IN  [exc |-> "none", total_data_mb |-> total_data_mb,
         total_data_gb |-> total_data_gb, total_data_tb |-> total_data_tb]

(***************************************************************************)
(* The scenarios analysed.  HighRes, LowRes and Sso are the three          *)
(* parameter dictionaries of main(); the others vary one argument of one   *)
(* of them.                                                                *)
(***************************************************************************)
HighRes ==
    [satellite_model |-> "WorldView-4", resolution |-> FromInt(1),
     altitude |-> FromInt(500000), fov_degrees |-> FromInt(5),
     sensor_width_mm |-> FromInt(36), sensor_height_mm |-> FromInt(24),
     pixel_size_um |-> FromInt(5), num_channels |-> PyInt(4),
     overlap_percent |-> FromInt(10), orbital_period_minutes |-> FromInt(95),
     inclination_degrees |-> FromInt(98), ltan |-> "10:30"]

LowRes ==
    [satellite_model |-> "MODIS Terra", resolution |-> FromInt(250),
     altitude |-> FromInt(800000), fov_degrees |-> FromInt(15),
     sensor_width_mm |-> FromInt(30), sensor_height_mm |-> FromInt(20),
     pixel_size_um |-> FromInt(20), num_channels |-> PyInt(7),
     overlap_percent |-> FromInt(5), orbital_period_minutes |-> FromInt(100),
     inclination_degrees |-> FromInt(98), ltan |-> "10:30"]

\* sso_params of main() gives no orbital_period_minutes: the default, 90.
Sso ==
    [satellite_model |-> "Sentinel-2", resolution |-> FromInt(10),
     altitude |-> FromInt(700000), fov_degrees |-> FromInt(10),
     sensor_width_mm |-> FromInt(35), sensor_height_mm |-> FromInt(23),
     pixel_size_um |-> FromInt(7), num_channels |-> PyInt(13),
     overlap_percent |-> FromInt(10), orbital_period_minutes |-> FromInt(90),
     inclination_degrees |-> FromInt(98), ltan |-> "10:30"]

MainScenarios == {HighRes, LowRes, Sso}

\* Scenarios that differ from one of main() in the resolution only.
ResolutionVariants ==
    {[HighRes EXCEPT !.resolution = FromInt(250)],
     [Sso EXCEPT !.resolution = FromInt(1)]}

\* Scenarios analysed without an inclination (the parameter's default).
NoInclinationVariants ==
    {[HighRes EXCEPT !.inclination_degrees = None, !.ltan = "None"],
     [LowRes EXCEPT !.inclination_degrees = None, !.ltan = "None"]}

\* Other values of altitude and orbital_period_minutes: a caller that passes
\* the very period the SSO formula gives, a high orbit, a zero period, and a
\* positive altitude close to zero.
StressVariants ==
    {[HighRes EXCEPT !.orbital_period_minutes =
         calculate_sso_orbit_parameters(HighRes.altitude,
             HighRes.inclination_degrees).orbital_period_minutes],
     [HighRes EXCEPT !.altitude = FromInt(6553600)],
     [HighRes EXCEPT !.inclination_degrees = None, !.ltan = "None",
                     !.orbital_period_minutes = Zero],
     [HighRes EXCEPT !.altitude = FromRatio(1, 1024)]}

Scenarios ==
    MainScenarios \cup ResolutionVariants \cup NoInclinationVariants
                  \cup StressVariants

\* Calls of analyze_resolution_scenario in one run of the model.
MaxCalls == 3

(***************************************************************************)
(* analyze_resolution_scenario as a state machine: one action per          *)
(* statement of the body, the locals of the call in loc.                   *)
(***************************************************************************)
pipeline == <<pc, args, loc, trace, history, shown>>

\* What a statement of analyze_resolution_scenario cannot touch.
elsewhere == <<fn, line, volumes, printed, shown>>

NoArgs == [satellite_model |-> "None"]

\* The frame of a new call: the parameter orbital_period_minutes is a local
\* (line 314 rebinds it), every other local is unbound.
NewFrame(s) ==
    [orbital_period_minutes |-> s.orbital_period_minutes,
     swath_width |-> None, swath_height |-> None,
     width_px |-> None, height_px |-> None,
     total_pixels |-> None, image_size_mb |-> None,
     num_images |-> None, sso_params |-> None,
     imaging_intervals |-> None,
     total_data_mb |-> None, total_data_gb |-> None, total_data_tb |-> None]

NoFrame == NewFrame([orbital_period_minutes |-> None])

InitPipeline ==
    /\ pc = "idle"
    /\ args = NoArgs
    /\ loc = NoFrame
    /\ trace = <<>>
    /\ history = <<>>
    /\ shown = <<>>

\* A statement raised: the exception leaves analyze_resolution_scenario (it
\* has no try) and the call ends without a result.
Raise(stmt, e) ==
    /\ pc' = "idle"
    /\ history' = Append(history,
                         [args |-> args, exc |-> e, results |-> None,
                          trace |-> Append(trace, stmt)])
    /\ args' = NoArgs
    /\ loc' = NoFrame
    /\ trace' = <<>>
    /\ UNCHANGED elsewhere

\* A statement completed: control moves on.
Goto(stmt, next, frame) ==
    /\ pc' = next
    /\ loc' = frame
    /\ trace' = Append(trace, stmt)
    /\ UNCHANGED <<args, history>>
    /\ UNCHANGED elsewhere

Call(s) ==
    /\ pc = "idle"
    /\ Len(history) < MaxCalls
    /\ shown = <<>>
    /\ pc' = "ground_coverage"
    /\ args' = s
    /\ loc' = NewFrame(s)
    /\ trace' = <<>>
    /\ UNCHANGED history
    /\ UNCHANGED elsewhere

\* A call statement "names = f(...)": the exception f raised leaves the
\* call, or the named locals are bound to what f returned.
Assign(stmt, next, r, names) ==
    IF r.exc # "none" THEN Raise(stmt, r.exc)
    ELSE Goto(stmt, next,
              [n \in DOMAIN loc |-> IF n \in names THEN r[n] ELSE loc[n]])

GroundCoverage ==
    /\ pc = "ground_coverage"
    /\ Assign("ground_coverage", "image_size",
              calculate_ground_coverage(args.altitude, args.fov_degrees,
                  args.sensor_width_mm, args.sensor_height_mm,
                  args.pixel_size_um),
              {"swath_width", "swath_height", "width_px", "height_px"})

ImageSize ==
    /\ pc = "image_size"
    /\ Assign("image_size", "number_of_images",
              calculate_image_size(args.resolution, loc.width_px,
                                   loc.height_px, args.num_channels),
              {"total_pixels", "image_size_mb"})

NumberOfImages ==
    /\ pc = "number_of_images"
    /\ Assign("number_of_images", "sso",
              calculate_number_of_images(args.resolution, loc.swath_width,
                  loc.swath_height, args.overlap_percent),
              {"num_images"})

\* Mutant: line 314 missing, the caller's period stays bound.
SsoBound_keep_period(frame, r) ==
    IF r.exc # "none" THEN r
    ELSE [exc |-> "none", sso_params |-> r,
          orbital_period_minutes |-> frame.orbital_period_minutes]

\* Mutant: the period is taken from the SSO formula but sso_params is dropped.
SsoBound_drop_params(frame, r) ==
    IF r.exc # "none" THEN r
    ELSE [exc |-> "none", sso_params |-> None,
          orbital_period_minutes |-> r.orbital_period_minutes]

\* Lines 311-314: sso_params and orbital_period_minutes from the SSO formula.
SsoBound(frame, r) ==
    IF r.exc # "none" THEN r
    ELSE [exc |-> "none", sso_params |-> r,
          orbital_period_minutes |-> r.orbital_period_minutes]

\* Lines 310-316: the SSO parameters, only when an inclination is given.
SsoBranch(frame, a) ==
    IF a.inclination_degrees # None
    THEN SsoBound(frame, calculate_sso_orbit_parameters(a.altitude,
                             a.inclination_degrees))
    ELSE [exc |-> "none", sso_params |-> None,
          orbital_period_minutes |-> frame.orbital_period_minutes]

SsoParameters ==
    /\ pc = "sso"
    /\ Assign("sso", "imaging_intervals", SsoBranch(loc, args),
              {"sso_params", "orbital_period_minutes"})

\* imaging_intervals = calculate_imaging_intervals(...): the dictionary.
AsIntervals(r) ==
    IF r.exc # "none" THEN r ELSE [exc |-> "none", imaging_intervals |-> r]

ImagingIntervals ==
    /\ pc = "imaging_intervals"
    /\ Assign("imaging_intervals", "total_data_volume",
              AsIntervals(calculate_imaging_intervals(args.altitude,
                  loc.swath_width, loc.swath_height, args.overlap_percent,
                  loc.orbital_period_minutes)),
              {"imaging_intervals"})

TotalDataVolume ==
    /\ pc = "total_data_volume"
    /\ Assign("total_data_volume", "results",
              calculate_total_data_volume(args.resolution, loc.num_images,
                                          loc.image_size_mb),
              {"total_data_mb", "total_data_gb", "total_data_tb"})

\* Lines 329-353: the dictionary returned.
Results(a, f) ==
    [satellite_model |-> a.satellite_model,
     resolution |-> a.resolution,
     altitude |-> a.altitude,
     fov_degrees |-> a.fov_degrees,
     sensor_width_mm |-> a.sensor_width_mm,
     sensor_height_mm |-> a.sensor_height_mm,
     pixel_size_um |-> a.pixel_size_um,
     num_channels |-> a.num_channels,
     orbital_period_minutes |-> f.orbital_period_minutes,
     swath_width_km |-> FDiv(f.swath_width, FromInt(1000)),
     swath_height_km |-> FDiv(f.swath_height, FromInt(1000)),
     image_width_px |-> f.width_px,
     image_height_px |-> f.height_px,
     total_pixels |-> f.total_pixels,
     image_size_mb |-> f.image_size_mb,
     num_images |-> f.num_images,
     total_data_mb |-> f.total_data_mb,
     total_data_gb |-> f.total_data_gb,
     total_data_tb |-> f.total_data_tb,
     imaging_intervals |-> f.imaging_intervals,
     sso_params |-> f.sso_params,
     inclination_degrees |-> a.inclination_degrees,
     ltan |-> a.ltan]

Return ==
    /\ pc = "results"
    /\ pc' = "idle"
    /\ history' = Append(history,
                         [args |-> args, exc |-> "none",
                          results |-> Results(args, loc),
                          trace |-> Append(trace, "results")])
    /\ args' = NoArgs
    /\ loc' = NoFrame
    /\ trace' = <<>>
    /\ UNCHANGED elsewhere

(***************************************************************************)
(* main() of pierwszykrokmilowy.py after its three analyses (lines         *)
(* 519-521): the orbit figures, then the report.                           *)
(***************************************************************************)
\* Lines 519-521: the analyses main() makes before it draws and reports.
MainCalls == 3

\* Lines 421-423, 459-460: sso_results["sso_params"][...]; subscripting None
\* raises TypeError.
visualize_sso_orbits(sso_results) ==
    IF sso_results.sso_params = None
    THEN [exc |-> "TypeError"]
    ELSE [exc |-> "none",
          orbital_radius |-> sso_results.sso_params.orbital_radius_km,
          inclination |-> sso_results.inclination_degrees]

\* Lines 554, 571, 588: {..._results['sso_params']['orbits_per_day']:.2f}.
ReportSection(results) ==
    IF results.sso_params = None
    THEN [exc |-> "TypeError"]
    ELSE [exc |-> "none", orbits_per_day |-> results.sso_params.orbits_per_day]

\* main() got past its three analyses (none raised) and nothing it drew or
\* reported since has raised.
Presenting ==
    /\ pc = "idle"
    /\ Len(history) = MainCalls
    /\ \A i \in DOMAIN history : history[i].exc = "none"
    /\ \A k \in DOMAIN shown : shown[k].exc = "none"

Show(stmt, i, r) ==
    /\ shown' = Append(shown, [stmt |-> stmt, of |-> i, ret |-> r, exc |-> r.exc])
    /\ UNCHANGED <<pc, args, loc, trace, history, fn, line, volumes, printed>>

\* Lines 534-536: one call of visualize_sso_orbits, in the order analysed.
VisualizeSsoOrbits ==
    /\ Presenting
    /\ Len(shown) < MainCalls
    /\ Show("visualize_sso_orbits", Len(shown) + 1,
            visualize_sso_orbits(history[Len(shown) + 1].results))

\* Lines 540-590: one section of the report, in the order analysed.
Report ==
    /\ Presenting
    /\ MainCalls <= Len(shown) /\ Len(shown) < 2 * MainCalls
    /\ Show("report", Len(shown) + 1 - MainCalls,
            ReportSection(history[Len(shown) + 1 - MainCalls].results))

(***************************************************************************)
(* src/drugikrokmilowy.py                                                  *)
(***************************************************************************)
\* The operand of a float operation: an int operand is converted first.
AsFloat(x) == IF x.k = "int" THEN IntToFloat(x) ELSE x

\* The position of the leading binary digit of m * 2^e.
Magnitude(x) == Bits(x.m) + x.e

\* m scaled to `width` binary digits.
Aligned(x, width) == x.m * 2^(width - Bits(x.m))

\* x < y and x == y of Python for two numbers, int or float: the values are
\* compared exactly (an int is not rounded to a float first).
PyLt(x, y) ==
    IF IsNaN(x) \/ IsNaN(y) \/ IsInf(x) THEN FALSE
    ELSE IF IsInf(y) THEN TRUE
    ELSE IF y.m = 0 THEN FALSE
    ELSE IF x.m = 0 THEN TRUE
    ELSE \/ Magnitude(x) < Magnitude(y)
         \/ /\ Magnitude(x) = Magnitude(y)
            /\ Aligned(x, Max(Bits(x.m), Bits(y.m)))
                   < Aligned(y, Max(Bits(x.m), Bits(y.m)))

PyEq(x, y) ==
    IF IsNaN(x) \/ IsNaN(y) THEN FALSE
    ELSE IF IsInf(x) \/ IsInf(y) THEN IsInf(x) /\ IsInf(y)
    ELSE IF x.m = 0 \/ y.m = 0 THEN x.m = y.m
    ELSE /\ Magnitude(x) = Magnitude(y)
         /\ Aligned(x, Max(Bits(x.m), Bits(y.m)))
                = Aligned(y, Max(Bits(x.m), Bits(y.m)))

\* Line 9: int(np.ceil(original_num_images / orbit_frequency_factor)).
adjust_acquisition_frequency(original_num_images, orbit_frequency_factor) ==
    LET q == FCeil(FDiv(AsFloat(original_num_images),
                        AsFloat(orbit_frequency_factor)))
    IN  IF orbit_frequency_factor.m = 0 THEN [exc |-> "ZeroDivisionError"]
        ELSE IF IntExc(q) # "none" THEN [exc |-> IntExc(q)]
        ELSE [exc |-> "none", ret |-> IntOfFloat(q)]

\* Lines 17-19: data * (area_percent / 100) / compression_ratio.
Compressed(data_gb, area_percent, compression_ratio) ==
    FDiv(FMul(AsFloat(data_gb), IntTrueDiv(area_percent, PyInt(100))),
         AsFloat(compression_ratio))

simulate_hybrid_acquisition_with_terrain_and_daylight(high_res_data_gb, low_res_data_gb, urban_area_percent, other_land_area_percent, ocean_area_percent, compression_ratio_high_res, compression_ratio_low_res, daylight_fraction) ==
    LET compressed_urban_data ==
            Compressed(high_res_data_gb, urban_area_percent,
                       compression_ratio_high_res)
        compressed_land_data ==
            Compressed(low_res_data_gb, other_land_area_percent,
                       compression_ratio_low_res)
        compressed_ocean_data ==
            Compressed(low_res_data_gb, ocean_area_percent,
                       IntMul(compression_ratio_low_res, PyInt(2)))
    IN  IF compression_ratio_high_res.m = 0 \/ compression_ratio_low_res.m = 0
        THEN [exc |-> "ZeroDivisionError"]
        ELSE [exc |-> "none",
              ret |-> FMul(FAdd(FAdd(compressed_urban_data, compressed_land_data),
                                compressed_ocean_data),
                           daylight_fraction)]

\* Mutant: the limit itself does not fit.
check_transmission_limit_below(data_volume_gb, daily_limit_gb) ==
    PyLt(data_volume_gb, daily_limit_gb)

check_transmission_limit(data_volume_gb, daily_limit_gb) ==
    PyLt(data_volume_gb, daily_limit_gb) \/ PyEq(data_volume_gb, daily_limit_gb)

\* Lines 55-61: the data rates and the volume a day of each.
data_rate_500km_mbps == FromRatio(137963, 10)
data_rate_700km_mbps == FromRatio(268519, 100)

GbPerDay(data_rate_mbps) ==
    FDiv(FMul(FMul(data_rate_mbps, FromRatio(125, 1000)), FromInt(86400)),
         FromInt(1024))

gb_per_day_500km == GbPerDay(data_rate_500km_mbps)
gb_per_day_700km == GbPerDay(data_rate_700km_mbps)

\* Line 63: 32 * 750 * 86400 / (1024*1024).
daily_limit_500km ==
    IntTrueDiv(IntMul(IntMul(PyInt(32), PyInt(750)), PyInt(86400)),
               IntMul(PyInt(1024), PyInt(1024)))

\* Lines 81-115: the three variants (none of them raises: every compression
\* ratio and every frequency factor is a positive literal).
Variant(high_res_data_gb, urban, land, ocean, ratio_high, ratio_low, factor) ==
    adjust_acquisition_frequency(
        simulate_hybrid_acquisition_with_terrain_and_daylight(
            high_res_data_gb, gb_per_day_700km, PyInt(urban), PyInt(land),
            PyInt(ocean), PyInt(ratio_high), PyInt(ratio_low),
            FromRatio(5, 10)).ret,
        PyInt(factor)).ret

min_data_gb      == Variant(PyInt(0), 0, 30, 70, 2, 20, 5)
careful_data_gb  == Variant(gb_per_day_500km, 5, 30, 65, 5, 10, 4)
balanced_data_gb == Variant(gb_per_day_500km, 10, 30, 60, 2, 4, 3)

\* Line 117 (the names without their diacritics).
scenarios == <<"Minimalny", "Ostrozny", "Zrownowazony">>

InitMain ==
    /\ line = "variants"
    /\ volumes = None
    /\ printed = <<>>

\* Lines 55-118.
MainVariants ==
    /\ line = "variants"
    /\ volumes' = <<min_data_gb, careful_data_gb, balanced_data_gb>>
    /\ line' = "report"
    /\ UNCHANGED <<printed, fn, pipeline>>

\* Lines 121-123: one iteration of the loop.
MainReport ==
    /\ line = "report"
    /\ printed' = Append(printed,
           [s |-> scenarios[Len(printed) + 1],
            v |-> volumes[Len(printed) + 1],
            verdict |-> IF check_transmission_limit(volumes[Len(printed) + 1],
                                                    daily_limit_500km)
                        THEN "OK" ELSE "PRZEKROCZENIE"])
    /\ line' = IF Len(printed) + 1 = Len(volumes) THEN "plot" ELSE "report"
    /\ UNCHANGED <<volumes, fn, pipeline>>

\* Line 125: plot_scenarios(scenarios, volumes), and main() returns.
MainPlot ==
    /\ line = "plot"
    /\ line' = "done"
    /\ UNCHANGED <<volumes, printed, fn, pipeline>>

(***************************************************************************)
(* Functions called on their own, on arguments drawn from grids.           *)
(***************************************************************************)
\* Volumes and limits: 0, 1/4, 2/4 .. MaxVolume/4 GB as floats, and
\* 0 .. MaxVolume GB as ints.
MaxVolume == 24

Quarter(k) == FromRatio(k, 4)

Volumes == {Quarter(k) : k \in 0..MaxVolume} \cup {PyInt(k) : k \in 0..MaxVolume}

\* Swath widths between 2^(SwathExpMin + Precision - 1) and
\* 2^(SwathExpMax + Precision) metres, every float in that range: the Earth
\* is covered by 1 to about 80 images; and a width so small that the
\* quotient of line 81 overflows.
SwathExpMin == 36
SwathExpMax == 41

TinySwath == Round(1, 0 - 20)

SwathWidths ==
    {Round(m, e) : m \in 2^(Precision - 1) .. 2^Precision - 1,
                   e \in SwathExpMin..SwathExpMax}

\* Width and height of a swath.
Swaths == {<<w, FromInt(1)>> : w \in SwathWidths} \cup {<<TinySwath, TinySwath>>}

Overlaps == {FromInt(0), FromInt(10)}

\* Image widths, heights in pixels: 0 .. MaxPixels, the sensor of the
\* high-resolution scenario of main(), and an int beyond every float.
MaxPixels == 9
MaxChannels == 4

PixelCounts ==
    {PyInt(n) : n \in 0..MaxPixels} \cup {PyInt(7200), PyInt(4800)}
        \cup {IntNorm(1, 2 * ExpRange)}

ChannelCounts == {PyInt(n) : n \in 0..MaxChannels} \cup {PyInt(13)}

\* Swath widths of calculate_imaging_intervals between
\* 2^(StripExpMin + Precision - 1) and 2^(StripExpMax + Precision) metres,
\* every float in that range: the equator takes 1 to about 80 strips; and
\* a width so small that the quotient of line 165 overflows.
StripExpMin == 12
StripExpMax == 18

TinyStrip == Round(1, 0 - ExpRange)

StripWidths ==
    {Round(m, e) : m \in 2^(Precision - 1) .. 2^Precision - 1,
                   e \in StripExpMin..StripExpMax} \cup {TinyStrip}

\* Arguments of simulate_hybrid_acquisition_with_terrain_and_daylight:
\* volumes of 0..MaxData GB, area percentages main uses (and none),
\* compression ratios 1..MaxRatio, half and full daylight.
MaxData == 2
MaxRatio == 2

DataVolumes == {PyInt(h) : h \in 0..MaxData}

UrbanPercents == {PyInt(0), PyInt(5), PyInt(10)}

LandPercents == {PyInt(0), PyInt(30)}

OceanPercents == {PyInt(0), PyInt(60)}

CompressionRatios == {PyInt(c) : c \in 1..MaxRatio}

DaylightFractions == {FromRatio(1, 2), FromInt(1)}

NoCall == [f |-> "None"]

InitFunctions == fn = NoCall

\* A call about to be made: the function and its arguments.
Pending(f, arguments) == [f |-> f, args |-> arguments, ret |-> None]

Calls ==
    {Pending("check_transmission_limit", <<v, l>>) : v \in Volumes, l \in Volumes}
    \cup {Pending("calculate_number_of_images", <<FromInt(1), s[1], s[2], o>>) :
              s \in Swaths, o \in Overlaps}
    \cup {Pending("calculate_image_size", <<FromInt(1), w, h, c>>) :
              w \in PixelCounts, h \in PixelCounts, c \in ChannelCounts}
    \cup {Pending("simulate_hybrid_acquisition_with_terrain_and_daylight",
                  <<h, l, u, a, o, ch, cl, d>>) :
              h \in DataVolumes, l \in DataVolumes, u \in UrbanPercents,
              a \in LandPercents, o \in OceanPercents,
              ch \in CompressionRatios, cl \in CompressionRatios,
              d \in DaylightFractions}
    \cup {Pending("calculate_imaging_intervals",
                  <<FromInt(500000), w, FromInt(1), o, FromInt(90)>>) :
              w \in StripWidths, o \in Overlaps}

InitCalls == fn \in Calls

IsPending(f) == fn.f = f /\ fn.ret = None

CallCheckTransmissionLimit ==
    /\ IsPending("check_transmission_limit")
    /\ fn' = [fn EXCEPT !.ret =
                  [exc |-> "none",
                   fits |-> check_transmission_limit(fn.args[1], fn.args[2])]]
    /\ UNCHANGED <<line, volumes, printed, pipeline>>

CallNumberOfImages ==
    /\ IsPending("calculate_number_of_images")
    /\ fn' = [fn EXCEPT !.ret = calculate_number_of_images(fn.args[1],
                                    fn.args[2], fn.args[3], fn.args[4])]
    /\ UNCHANGED <<line, volumes, printed, pipeline>>

CallImageSize ==
    /\ IsPending("calculate_image_size")
    /\ fn' = [fn EXCEPT !.ret = calculate_image_size(fn.args[1], fn.args[2],
                                    fn.args[3], fn.args[4])]
    /\ UNCHANGED <<line, volumes, printed, pipeline>>

CallImagingIntervals ==
    /\ IsPending("calculate_imaging_intervals")
    /\ fn' = [fn EXCEPT !.ret = calculate_imaging_intervals(fn.args[1],
                                    fn.args[2], fn.args[3], fn.args[4],
                                    fn.args[5])]
    /\ UNCHANGED <<line, volumes, printed, pipeline>>

CallSimulateHybrid ==
    /\ IsPending("simulate_hybrid_acquisition_with_terrain_and_daylight")
    /\ fn' = [fn EXCEPT !.ret =
                 simulate_hybrid_acquisition_with_terrain_and_daylight(
                     fn.args[1], fn.args[2], fn.args[3], fn.args[4],
                     fn.args[5], fn.args[6], fn.args[7], fn.args[8])]
    /\ UNCHANGED <<line, volumes, printed, pipeline>>

vars == <<pc, args, loc, trace, history, fn, line, volumes, printed, shown>>

Init == InitPipeline /\ InitFunctions /\ InitMain

Next ==
    \/ \E s \in Scenarios : Call(s)
    \/ GroundCoverage
    \/ ImageSize
    \/ NumberOfImages
    \/ SsoParameters
    \/ ImagingIntervals
    \/ TotalDataVolume
    \/ Return
    \/ VisualizeSsoOrbits
    \/ Report

Spec == Init /\ [][Next]_vars

\* The functions called on their own, each on arguments drawn from its
\* grid, and main() of drugikrokmilowy.py.
InitFn == InitPipeline /\ InitCalls /\ InitMain

NextFn ==
    \/ CallCheckTransmissionLimit
    \/ CallNumberOfImages
    \/ CallImageSize
    \/ CallImagingIntervals
    \/ CallSimulateHybrid
    \/ MainVariants
    \/ MainReport
    \/ MainPlot

SpecFn == InitFn /\ [][NextFn]_vars

(***************************************************************************)
(* Claims about analyze_resolution_scenario, checked under Spec.           *)
(***************************************************************************)
Returned(i) == history[i].exc = "none"

\* Between two calls: history changes only when a call ends, so what holds
\* of it then holds throughout the next call.
BetweenCalls == pc = "idle"

\* C2: in every result the data-volume fields agree with the image count
\* and the image size of the same result: total_data_mb = num_images *
\* image_size_mb, total_data_gb = total_data_mb / 1024 and total_data_tb =
\* total_data_gb / 1024.
C2_VolumeFieldsConsistent ==
    BetweenCalls =>
        \A i \in DOMAIN history :
            Returned(i) =>
                /\ history[i].results.total_data_mb =
                       FMul(IntToFloat(history[i].results.num_images),
                            history[i].results.image_size_mb)
                /\ history[i].results.total_data_gb =
                       FDiv(history[i].results.total_data_mb, FromInt(1024))
                /\ history[i].results.total_data_tb =
                       FDiv(history[i].results.total_data_gb, FromInt(1024))

\* A call returned a positive, finite data volume.
C2_Witness ==
    \E i \in DOMAIN history :
        /\ Returned(i)
        /\ IsFinite(history[i].results.total_data_tb)
        /\ ~IsZero(history[i].results.total_data_tb)
        /\ ~IsZero(IntToFloat(history[i].results.num_images))

\* C6: no state persists between scenarios: two analyses of the same
\* scenario, whatever was analysed in between and before, end the same way
\* with the same results.
C6_NoPersistentState ==
    BetweenCalls =>
        \A i, j \in DOMAIN history :
            history[i].args = history[j].args =>
                /\ history[i].exc = history[j].exc
                /\ history[i].results = history[j].results

\* A scenario of main() was analysed, then another one, then the first again.
C6_Witness ==
    /\ Len(history) >= 3
    /\ history[1].args \in MainScenarios
    /\ history[2].args \in MainScenarios
    /\ history[1].args # history[2].args
    /\ history[3].args = history[1].args
    /\ Returned(1) /\ Returned(2) /\ Returned(3)

\* C9, as claimed: the reported orbital period equals the caller-supplied
\* orbital_period_minutes if and only if inclination_degrees is None.
C9_CallerPeriodIffNoInclination ==
    \A i \in DOMAIN history :
        Returned(i) =>
            ((history[i].results.orbital_period_minutes =
                  history[i].args.orbital_period_minutes)
             <=> (history[i].args.inclination_degrees = None))

\* Two calls whose arguments differ at most in orbital_period_minutes.
SameButPeriod(a, b) ==
    [a EXCEPT !.orbital_period_minutes = b.orbital_period_minutes] = b

\* The call that returned last: history grows only by appending, so every
\* entry is the latest one in the state its call returns to.
Latest == {Len(history)} \cap DOMAIN history

\* C9, amended: without an inclination the reported period, which is the
\* one the imaging intervals are computed with, is the caller-supplied one;
\* with an inclination it is the period calculate_sso_orbit_parameters
\* derives from the altitude, whatever the caller supplied, so that calls
\* differing only in the supplied period return the same results.
C9_PeriodSource ==
    BetweenCalls =>
        /\ \A i \in Latest :
               Returned(i) =>
                   /\ history[i].args.inclination_degrees = None =>
                          history[i].results.orbital_period_minutes =
                              history[i].args.orbital_period_minutes
                   /\ history[i].args.inclination_degrees # None =>
                          /\ history[i].results.orbital_period_minutes =
                                 calculate_sso_orbit_parameters(
                                     history[i].args.altitude,
                                     history[i].args.inclination_degrees
                                 ).orbital_period_minutes
                          /\ history[i].results.orbital_period_minutes =
                                 history[i].results.sso_params.orbital_period_minutes
                   /\ history[i].results.imaging_intervals.time_for_full_coverage_hours =
                          FDiv(FMul(history[i].results.imaging_intervals.num_orbits_for_coverage,
                                    history[i].results.orbital_period_minutes),
                               FromInt(60))
        /\ \A i, j \in DOMAIN history :
               (/\ Returned(i) /\ Returned(j)
                /\ history[i].args.inclination_degrees # None
                /\ SameButPeriod(history[i].args, history[j].args))
               => history[i].results = history[j].results

\* Two calls with an inclination and different supplied periods returned,
\* and so did one without an inclination.
C9_Witness ==
    /\ \E i, j \in DOMAIN history :
           /\ Returned(i) /\ Returned(j)
           /\ history[i].args.inclination_degrees # None
           /\ SameButPeriod(history[i].args, history[j].args)
           /\ history[i].args.orbital_period_minutes #
                  history[j].args.orbital_period_minutes
           /\ history[i].results.orbital_period_minutes #
                  history[i].args.orbital_period_minutes
    /\ \E k \in DOMAIN history :
           Returned(k) /\ history[k].args.inclination_degrees = None

\* Two calls whose arguments differ at most in resolution.
SameButResolution(a, b) == [a EXCEPT !.resolution = b.resolution] = b

\* C10: calls whose inputs differ only in resolution return results equal
\* in every field except the echoed resolution.
C10_ResolutionIgnored ==
    BetweenCalls =>
        \A i, j \in DOMAIN history :
            SameButResolution(history[i].args, history[j].args) =>
                /\ history[i].exc = history[j].exc
                /\ (Returned(i) /\ Returned(j)) =>
                       [history[i].results EXCEPT
                            !.resolution = history[j].results.resolution]
                           = history[j].results

\* Two calls that differ in resolution, and in nothing else, returned.
C10_Witness ==
    \E i, j \in DOMAIN history :
        /\ Returned(i) /\ Returned(j)
        /\ SameButResolution(history[i].args, history[j].args)
        /\ history[i].args.resolution # history[j].args.resolution
        /\ history[i].results.resolution # history[j].results.resolution

\* main() as written: the three analyses of lines 519-521, in that order.
IsMain ==
    /\ Len(history) = MainCalls
    /\ history[1].args = HighRes
    /\ history[2].args = LowRes
    /\ history[3].args = Sso

\* C11: results['sso_params'] is None if and only if inclination_degrees is
\* None; the scenarios of main all have an inclination, so on main's path
\* neither visualize_sso_orbits nor the report subscripts a None sso_params
\* (which is what raises TypeError, for any result analysed without an
\* inclination).
C11_SsoParamsIffInclination ==
    /\ BetweenCalls =>
           \A i \in DOMAIN history :
               Returned(i) =>
                   ((history[i].results.sso_params = None)
                    <=> (history[i].args.inclination_degrees = None))
    /\ \A s \in MainScenarios : s.inclination_degrees # None
    /\ \A k \in DOMAIN shown :
           (shown[k].exc = "TypeError")
               <=> (history[shown[k].of].args.inclination_degrees = None)
    /\ IsMain => \A k \in DOMAIN shown : shown[k].exc = "none"

\* main() as written has drawn its three orbit figures and printed its
\* three report sections.
C11_Witness ==
    /\ IsMain
    /\ Len(shown) = 2 * MainCalls
    /\ \A i \in DOMAIN history :
           Returned(i) /\ history[i].results.sso_params # None
    /\ \A k \in DOMAIN shown : shown[k].exc = "none"

\* The claimed domain of analyze_resolution_scenario: positive sensor
\* sizes, pixel size and altitude, 0 < fov_degrees < 180, num_channels >= 1
\* and 0 <= overlap_percent < 100.
Positive(x) == IsFinite(x) /\ x.m > 0

ClaimedDomain(a) ==
    /\ Positive(a.sensor_width_mm) /\ Positive(a.sensor_height_mm)
    /\ Positive(a.pixel_size_um) /\ Positive(a.altitude)
    /\ Positive(a.fov_degrees) /\ FLt(a.fov_degrees, FromInt(180))
    /\ a.num_channels.m >= 1
    /\ IsFinite(a.overlap_percent) /\ FLt(a.overlap_percent, FromInt(100))

\* C7, as claimed: every call whose arguments lie in the claimed domain
\* completes without an error outcome and returns a results dictionary.
C7_NoErrorOutcome ==
    \A i \in DOMAIN history :
        ClaimedDomain(history[i].args) =>
            Returned(i) /\ history[i].results # None

\* The statements of analyze_resolution_scenario, in program order.
Stages ==
    <<"ground_coverage", "image_size", "number_of_images", "sso",
      "imaging_intervals", "total_data_volume", "results">>

\* C5, as claimed: single pass: the statements a call has executed are an
\* initial part of the stages in program order (each once, none re-entered),
\* and every call that ended went through all of them and returned.
C5_SinglePassToReturn ==
    /\ Len(trace) <= Len(Stages)
    /\ trace = SubSeq(Stages, 1, Len(trace))
    /\ \A i \in DOMAIN history :
           history[i].trace = Stages /\ Returned(i)

\* C4, as claimed: once the imaging intervals of a scenario are computed,
\* distance_interval_along_track * distance_interval_cross_track does not
\* exceed the effective area per image calculate_number_of_images used.
C4_SpacingWithinEffectiveArea ==
    pc \in {"total_data_volume", "results"} =>
        ~FLt(EffectiveArea(loc.swath_width, loc.swath_height,
                           args.overlap_percent),
             FMul(DistanceIntervalAlongTrack(loc.swath_height,
                                             args.overlap_percent),
                  DistanceIntervalCrossTrack(loc.swath_width,
                                             args.overlap_percent)))

(***************************************************************************)
(* Claims about the functions on their own and about main() of             *)
(* drugikrokmilowy.py, checked under SpecFn.                               *)
(***************************************************************************)
\* A call of f has returned.
Returning(f) == fn.f = f /\ fn.ret # None

\* The call of f on `arguments` has returned.
Done(f, arguments) == Returning(f) /\ fn.args = arguments

\* x <= y for two finite values whose units differ by few binary places.
ValueLe(x, y) ==
    x.m * 2^(x.e - Min(x.e, y.e)) <= y.m * 2^(y.e - Min(x.e, y.e))

\* C1: check_transmission_limit(data_volume_gb, daily_limit_gb) is true
\* exactly when data_volume_gb <= daily_limit_gb, the boundary included
\* (volumes and limits i/4 GB as floats and i GB as ints), and main reports
\* each of its three variants as OK exactly when its volume is at most
\* daily_limit_500km, as PRZEKROCZENIE otherwise.
C1_FitsExactlyWithinLimit ==
    /\ Returning("check_transmission_limit") =>
           \A i \in 0..MaxVolume :
               /\ fn.args[1] = Quarter(i) =>
                      \A j \in 0..MaxVolume :
                          /\ fn.args[2] = Quarter(j) => (fn.ret.fits <=> i <= j)
                          /\ fn.args[2] = PyInt(j) => (fn.ret.fits <=> i <= 4 * j)
               /\ fn.args[1] = PyInt(i) =>
                      \A j \in 0..MaxVolume :
                          /\ fn.args[2] = Quarter(j) => (fn.ret.fits <=> 4 * i <= j)
                          /\ fn.args[2] = PyInt(j) => (fn.ret.fits <=> i <= j)
    /\ \A n \in DOMAIN printed :
           /\ printed[n].s = scenarios[n]
           /\ printed[n].v = volumes[n]
           /\ printed[n].verdict =
                  IF ValueLe(volumes[n], daily_limit_500km)
                  THEN "OK" ELSE "PRZEKROCZENIE"

\* main has reported its three variants, and a volume equal to the limit
\* (an int against a float) was found to fit.
C1_Witness ==
    /\ line = "done" /\ Len(printed) = 3
    /\ \E i \in 1..MaxVolume :
           /\ 4 * i <= MaxVolume
           /\ Done("check_transmission_limit", <<PyInt(i), Quarter(4 * i)>>)
           /\ fn.ret.fits

\* a * b for two values m * 2^e, unrounded.
Product(a, b) == [k |-> "fin", m |-> a.m * b.m, e |-> a.e + b.e]

\* n images of effective area ea cover the corrected Earth surface,
\* 1.2 * EARTH_SURFACE_AREA, in exact arithmetic.
Covers(n, ea) ==
    ~PyLt(Product(n, ea), Product(CorrectionFactor, EARTH_SURFACE_AREA))

\* C3, as claimed: for positive swaths and 0 <= overlap_percent < 100,
\* calculate_number_of_images returns the smallest integer n >= 1 with
\* n * effective_area >= 1.2 * EARTH_SURFACE_AREA.
C3_SmallestSufficientCount ==
    Returning("calculate_number_of_images") =>
        /\ fn.ret.exc = "none"
        /\ fn.ret.num_images.m >= 1
        /\ Covers(fn.ret.num_images,
                  EffectiveArea(fn.args[2], fn.args[3], fn.args[4]))
        /\ ~Covers(PyInt(fn.ret.num_images.m * 2^fn.ret.num_images.e - 1),
                   EffectiveArea(fn.args[2], fn.args[3], fn.args[4]))

\* The integer a float holds (a whole number, below 2^31).
Whole(x) == IF x.e >= 0 THEN x.m * 2^x.e ELSE x.m \div 2^(0 - x.e)

\* Line 162: the local effective_width.
EffectiveWidth(swath_width, overlap_percent) ==
    FMul(swath_width, FSub(FromInt(1), FDiv(overlap_percent, FromInt(100))))

\* k strips of the effective width reach around the equator, exactly.
Spans(k, effective_width) ==
    ~PyLt(Product(k, effective_width), EARTH_CIRCUMFERENCE)

\* C12, as claimed: for positive swath_width and 0 <= overlap_percent < 100
\* num_strips_equator is the smallest integer k >= 1 with
\* k * effective_width >= EARTH_CIRCUMFERENCE, and the intervals partition
\* the equator exactly: num_strips_equator * distance_interval_cross_track
\* = EARTH_CIRCUMFERENCE and num_strips_equator *
\* longitude_interval_degrees = 360 (the products as the program's floats).
C12_StripsPartitionEquator ==
    Returning("calculate_imaging_intervals") =>
        /\ fn.ret.exc = "none"
        /\ IsFinite(fn.ret.num_strips_equator)
        /\ Whole(fn.ret.num_strips_equator) >= 1
        /\ Spans(PyInt(Whole(fn.ret.num_strips_equator)),
                 EffectiveWidth(fn.args[2], fn.args[4]))
        /\ ~Spans(PyInt(Whole(fn.ret.num_strips_equator) - 1),
                  EffectiveWidth(fn.args[2], fn.args[4]))
        /\ FMul(fn.ret.num_strips_equator,
                DistanceIntervalCrossTrack(fn.args[2], fn.args[4]))
               = EARTH_CIRCUMFERENCE
        /\ FMul(fn.ret.num_strips_equator, fn.ret.longitude_interval_degrees)
               = FromInt(360)

\* 100 times the uncompressed weighted volume, H * u + L * (l + o), the int.
WeightedVolume(H, L, u, l, o) ==
    PyInt(Whole(H) * Whole(u) + Whole(L) * (Whole(l) + Whole(o)))

\* C13, as claimed: for non-negative volumes and percentages, compression
\* ratios >= 1 and 0 <= daylight_fraction <= 1,
\* simulate_hybrid_acquisition_with_terrain_and_daylight returns a volume
\* that never exceeds the uncompressed weighted volume
\* H * u / 100 + L * (l + o) / 100 (the returned float compared exactly).
C13_WithinUncompressedVolume ==
    Returning("simulate_hybrid_acquisition_with_terrain_and_daylight") =>
        /\ fn.ret.exc = "none"
        /\ ~PyLt(WeightedVolume(fn.args[1], fn.args[2], fn.args[3],
                                fn.args[4], fn.args[5]),
                 Product(fn.ret.ret, PyInt(100)))

\* width * height * channels * 2, the int.
Bytes(w, h, c) == IntMul(IntMul(IntMul(w, h), c), PyInt(2))

\* C8, as claimed: for all non-negative ints calculate_image_size returns
\* total_pixels = width * height and image_size_mb with
\* image_size_mb * 1024 * 1024 = total_pixels * num_channels * 2 exactly.
C8_ExactlyTwoBytes ==
    Returning("calculate_image_size") =>
        /\ fn.ret.exc = "none"
        /\ fn.ret.total_pixels = IntMul(fn.args[2], fn.args[3])
        /\ PyEq(Product(fn.ret.image_size_mb, PyInt(1024 * 1024)),
                Bytes(fn.args[2], fn.args[3], fn.args[4]))

\* The float equal to n / (1024*1024), for 0 < n < 2^Precision.
Megabytes(n) ==
    [k |-> "fin", m |-> n * 2^(Precision - Bits(n)),
     e |-> (Bits(n) - Precision) - 20]

\* C8, amended: total_pixels = width * height exactly; image_size_mb is the
\* float nearest to total_pixels * num_channels * 2 / (1024*1024), which is
\* that quotient exactly whenever the byte count fits the significand of a
\* float; the call raises OverflowError, and only then, when the quotient
\* is beyond the largest float.
C8_TwoBytesWhenRepresentable ==
    Returning("calculate_image_size") =>
        /\ \A a, b \in 0..MaxPixels :
               (fn.args[2] = PyInt(a) /\ fn.args[3] = PyInt(b)) =>
                   \A c \in 0..MaxChannels :
                       fn.args[4] = PyInt(c) =>
                           /\ fn.ret.exc = "none"
                           /\ fn.ret.total_pixels = PyInt(a * b)
                           /\ fn.ret.image_size_mb =
                                  Round(a * b * c * 2, 0 - 20)
                           /\ (a * b * c = 0) => fn.ret.image_size_mb = Zero
                           /\ (0 < a * b * c /\ a * b * c * 2 < 2^Precision) =>
                                  fn.ret.image_size_mb = Megabytes(a * b * c * 2)
        /\ fn.ret.exc \in {"none", "OverflowError"}
        /\ fn.ret.exc = "OverflowError" =>
               Magnitude(Bytes(fn.args[2], fn.args[3], fn.args[4])) - 20
                   >= Emax + Precision
        /\ Magnitude(Bytes(fn.args[2], fn.args[3], fn.args[4])) - 20
               > Emax + Precision => fn.ret.exc = "OverflowError"

\* calculate_image_size(1, 3, 5, 4) returned 15 pixels and 120 bytes in MB.
C8_Witness ==
    /\ Done("calculate_image_size", <<FromInt(1), PyInt(3), PyInt(5), PyInt(4)>>)
    /\ fn.ret.exc = "none"
    /\ fn.ret.total_pixels = PyInt(15)
    /\ fn.ret.image_size_mb = Megabytes(120)

====
